---- MODULE Spec2Model ----
(***************************************************************************)
(* Pavement node generator (src/Pavement_GeneratorLabel.py).               *)
(*                                                                         *)
(* Lengths are counted in millimetres, so every coordinate of the program  *)
(* is an integer here: 0.475 m is 475, the 1.5 m subgrade is 1500.         *)
(* Python floats are binary floating point numbers: the result of every    *)
(* subtraction is rounded to the nearest number with a fixed count of      *)
(* significant bits (53 in binary64).  The model keeps that rounding with  *)
(* a shorter significand of Precision bits: integers below 2^Precision are *)
(* exact, larger ones are rounded to the nearest multiple of their ulp,    *)
(* ties to even.                                                           *)
(*                                                                         *)
(* Text (the contents of the entry fields, the lines of the written file)  *)
(* is a sequence of one-character strings.                                 *)
(***************************************************************************)
EXTENDS Integers, Sequences, FiniteSets, TLC

VARIABLES
  pavement_type_var,  \* the StringVar behind the pavement type OptionMenu
  field,              \* the nine thickness StringVars: name -> text
  visible,            \* the widgets that are currently gridded (shown)
  edits,              \* how many times a thickness field was retyped
  events,             \* what the most recent on_generate did, in order
  y_coords,           \* the depth sequence of the most recent build
  nodes,              \* the node set of the most recent build
  node_list,          \* the numbered node list of the most recent on_generate
  env,                \* what the save dialog answered and how the write went
  file_before,        \* the file at the chosen path when on_generate began
  disk,               \* the file at the chosen path now: [exists, data]
  pc,                 \* "idle", or "generated" while on_generate's results stand
  plotted,            \* what plot_pavement was last given, or NoPlot
  b_type,             \* generate_pavement_nodes called directly: pavement_type
  b_layers,           \* ... its layers mapping
  b_result            \* ... what the call gave back

vars == <<pavement_type_var, field, visible, edits, events, y_coords, nodes,
          node_list, env, file_before, disk, plotted, pc, b_type, b_layers,
          b_result>>

guivars == <<pavement_type_var, field, visible, edits, events, y_coords, nodes,
             node_list, env, file_before, disk, plotted, pc>>

buildvars == <<b_type, b_layers, b_result>>

-----------------------------------------------------------------------------
(* Bounds of the model *)

\* significant bits of a float (binary64 has 53)
Precision == 12

\* how many times the thickness fields are retyped in one run
MaxEdits == 1

\* how many node lines a failing write may have put in the file
MaxPartial == 1

-----------------------------------------------------------------------------
(* Sequences and text *)

Range(s) == { s[i] : i \in 1..Len(s) }

Digits == <<"0", "1", "2", "3", "4", "5", "6", "7", "8", "9">>

IsDigit(c) == c \in Range(Digits)

DigitVal(c) == (CHOOSE i \in 1..10 : Digits[i] = c) - 1

RECURSIVE Pow(_, _)
Pow(b, k) == IF k = 0 THEN 1 ELSE b * Pow(b, k - 1)

Abs(n) == IF n < 0 THEN -n ELSE n

\* the number a run of decimal digits denotes
RECURSIVE DigitsToNat(_)
DigitsToNat(s) ==
  IF s = <<>> THEN 0
  ELSE 10 * DigitsToNat(SubSeq(s, 1, Len(s) - 1)) + DigitVal(s[Len(s)])

\* str(int) for n >= 0
RECURSIVE NatToDigits(_)
NatToDigits(n) ==
  IF n < 10 THEN <<Digits[n + 1]>>
  ELSE Append(NatToDigits(n \div 10), Digits[(n % 10) + 1])

RECURSIVE StripZeros(_)
StripZeros(s) ==
  IF Len(s) > 1 /\ s[Len(s)] = "0" THEN StripZeros(SubSeq(s, 1, Len(s) - 1))
  ELSE s

-----------------------------------------------------------------------------
(* Floats *)

\* the spacing of the floats around n: the least power of two u with
\* |n| < 2^Precision * u
RECURSIVE UlpFrom(_, _)
UlpFrom(a, u) == IF a < Pow(2, Precision) * u THEN u ELSE UlpFrom(a, 2 * u)

Ulp(n) == UlpFrom(Abs(n), 1)

\* q units and a remainder r of d: to the nearest count of units, ties to even
RoundQuot(q, r, d, u) ==
  IF 2 * r > d \/ (2 * r = d /\ q % 2 = 1) THEN (q + 1) * u ELSE q * u

RoundMag(a, u) == RoundQuot(a \div u, a % u, u, u)

\* round to nearest, ties to even
RoundFloat(n) ==
  IF n < 0 THEN -RoundMag(-n, Ulp(n)) ELSE RoundMag(n, Ulp(n))

IsFloat(n) == RoundFloat(n) = n

\* a - b on floats
FSub(a, b) == RoundFloat(a - b)

\* float(s): blanks around the number are dropped, then an optional sign, then
\* digits with at most one point and at least one digit.  (Exponents, "inf",
\* "nan" and digit-group underscores, which float also reads, are not among
\* the texts of this model.)  The decimal number is rounded to the nearest
\* float.
RECURSIVE Strip(_)
Strip(s) ==
  IF s # <<>> /\ s[1] = " " THEN Strip(Tail(s))
  ELSE IF s # <<>> /\ s[Len(s)] = " " THEN Strip(SubSeq(s, 1, Len(s) - 1))
  ELSE s

\* the digits after the point, in millimetres, rounded half to even
FracToMilli(frac) ==
  IF Len(frac) <= 3 THEN DigitsToNat(frac) * Pow(10, 3 - Len(frac))
  ELSE RoundQuot(DigitsToNat(frac) \div Pow(10, Len(frac) - 3),
                 DigitsToNat(frac) % Pow(10, Len(frac) - 3),
                 Pow(10, Len(frac) - 3), 1)

AllDigits(s) == \A i \in 1..Len(s) : IsDigit(s[i])

\* the digits before and after the point
ParseParts(ip, fp, negative) ==
  IF Len(ip) + Len(fp) >= 1 /\ AllDigits(ip) /\ AllDigits(fp)
  THEN [ok |-> TRUE,
        val |-> RoundFloat((IF negative THEN -1 ELSE 1)
                             * (DigitsToNat(ip) * 1000 + FracToMilli(fp)))]
  ELSE [ok |-> FALSE, val |-> 0]

\* the place of the first point, or one past the end
DotPos(body) ==
  IF \A i \in 1..Len(body) : body[i] # "." THEN Len(body) + 1
  ELSE CHOOSE i \in 1..Len(body) :
         body[i] = "." /\ \A j \in 1..(i - 1) : body[j] # "."

ParseBody(body, dot, negative) ==
  ParseParts(SubSeq(body, 1, dot - 1), SubSeq(body, dot + 1, Len(body)), negative)

ParseStripped(s) ==
  IF s # <<>> /\ s[1] \in {"+", "-"}
  THEN ParseBody(Tail(s), DotPos(Tail(s)), s[1] = "-")
  ELSE ParseBody(s, DotPos(s), FALSE)

ParseFloat(text) == ParseStripped(Strip(text))

\* int(s), as a reader of the written file applies it to the id field
ParseInt(text) ==
  IF Strip(text) # <<>> /\ AllDigits(Strip(text))
  THEN [ok |-> TRUE, val |-> DigitsToNat(Strip(text))]
  ELSE [ok |-> FALSE, val |-> 0]

\* three digits of millimetres as the digits after the point: 60 -> "06"
FracDigits(f) ==
  StripZeros(<<Digits[(f \div 100) + 1], Digits[((f \div 10) % 10) + 1],
               Digits[(f % 10) + 1]>>)

FormatFloatNoSign(v) ==
  NatToDigits(Abs(v) \div 1000) \o <<".">> \o FracDigits(Abs(v) % 1000)

\* str(float): the shortest decimal text that reads back as the same float,
\* always with a point: 0.0, 0.475, -2.04, 20.0
FormatFloat(v) ==
  (IF v < 0 THEN <<"-">> ELSE <<>>)
    \o NatToDigits(Abs(v) \div 1000) \o <<".">> \o FracDigits(Abs(v) % 1000)

\* str(int) of a node id
FormatInt(n) == NatToDigits(n)

-----------------------------------------------------------------------------
(* generate_pavement_nodes *)

\* X_COORDS, in millimetres
X_COORDS == <<0, 475, 725, 2275, 2525, 3000>>

\* the 1.5 m of subgrade below the last layer, in millimetres
SUBGRADE == 1500

PavementTypes == {"Flexible", "Rigid", "Semi-Rigid"}

FlexibleKeys == <<"surface", "binder", "base", "subbase">>
RigidKeys == <<"rigid_slab", "rigid_subbase">>
SemiRigidKeys == <<"asphalt", "ctb", "semirigid_subbase">>

LayerKeysStrict(pavement_type) ==
  IF pavement_type = "Flexible" THEN FlexibleKeys
  ELSE IF pavement_type = "Rigid" THEN RigidKeys
  ELSE IF pavement_type = "Semi-Rigid" THEN SemiRigidKeys
  ELSE <<"no such pavement type">>

\* the if / elif / else of generate_pavement_nodes: every type that is neither
\* Flexible nor Rigid takes the last branch
LayerKeys(pavement_type) ==
  IF pavement_type = "Flexible" THEN FlexibleKeys
  ELSE IF pavement_type = "Rigid" THEN RigidKeys
  ELSE SemiRigidKeys

\* thicknesses = [layers[k], ...]: a missing key raises KeyError
HasKeys(pavement_type, layers) ==
  \A i \in 1..Len(LayerKeys(pavement_type)) :
     LayerKeys(pavement_type)[i] \in DOMAIN layers

Thicknesses(pavement_type, layers) ==
  [i \in 1..Len(LayerKeys(pavement_type)) |-> layers[LayerKeys(pavement_type)[i]]]

\* current_y -= t
YStep(current_y, t) == FSub(current_y, t)

\* the loop over thicknesses: y_coords after appending one depth per layer
RECURSIVE LayerDepths(_, _)
LayerDepths(ys, thicknesses) ==
  IF thicknesses = <<>> THEN ys
  ELSE LayerDepths(Append(ys, YStep(ys[Len(ys)], Head(thicknesses))),
                   Tail(thicknesses))

WithoutSubgrade(ys) == ys

\* current_y -= 1.5; y_coords.append(current_y)
WithSubgrade(ys) == Append(ys, YStep(ys[Len(ys)], SUBGRADE))

\* y_coords: 0.0, one depth per layer, then the subgrade floor
YCoords(thicknesses) == WithSubgrade(LayerDepths(<<0>>, thicknesses))

NodeSetInner(ys) ==
  { <<X_COORDS[i], ys[j], 0>> : i \in 2..Len(X_COORDS), j \in 1..Len(ys) }

\* nodes = set(); nodes.add((x, y, 0.0)) for every y and x
NodeSet(ys) ==
  { <<X_COORDS[i], ys[j], 0>> : i \in 1..Len(X_COORDS), j \in 1..Len(ys) }

ColLines(ys) ==
  [i \in 1..Len(X_COORDS) |-> [j \in 1..Len(ys) |-> <<X_COORDS[i], ys[j], 0>>]]

RowLines(ys) ==
  [j \in 1..Len(ys) |-> [i \in 1..Len(X_COORDS) |-> <<X_COORDS[i], ys[j], 0>>]]

NoBuild ==
  [raised |-> "KeyError", y_coords |-> <<>>, nodes |-> {},
   col_lines |-> <<>>, row_lines |-> <<>>]

\* the node set and the plot lines over the depths ys
BuildFrom(ys) ==
  [raised |-> "none", y_coords |-> ys, nodes |-> NodeSet(ys),
   col_lines |-> ColLines(ys), row_lines |-> RowLines(ys)]

generate_pavement_nodes(pavement_type, layers) ==
  IF ~HasKeys(pavement_type, layers) THEN NoBuild
  ELSE BuildFrom(YCoords(Thicknesses(pavement_type, layers)))

-----------------------------------------------------------------------------
(* The form *)

FieldNames == Range(FlexibleKeys) \cup Range(RigidKeys) \cup Range(SemiRigidKeys)

Label(f) == <<f, "label">>
Entry(f) == <<f, "entry">>

flexible_widgets ==
  <<Label("surface"), Entry("surface"), Label("binder"), Entry("binder"),
    Label("base"), Entry("base"), Label("subbase"), Entry("subbase")>>

rigid_widgets ==
  <<Label("rigid_slab"), Entry("rigid_slab"),
    Label("rigid_subbase"), Entry("rigid_subbase")>>

semirigid_widgets ==
  <<Label("asphalt"), Entry("asphalt"), Label("ctb"), Entry("ctb"),
    Label("semirigid_subbase"), Entry("semirigid_subbase")>>

AllWidgets == Range(flexible_widgets \o rigid_widgets \o semirigid_widgets)

\* the texts the StringVars are created with
DefaultField ==
  [surface |-> <<"0", ".", "0", "6">>,
   binder |-> <<"0", ".", "0", "8">>,
   base |-> <<"0", ".", "2", "0">>,
   subbase |-> <<"0", ".", "2", "0">>,
   rigid_slab |-> <<"0", ".", "2", "0">>,
   rigid_subbase |-> <<"0", ".", "2", "0">>,
   asphalt |-> <<"0", ".", "0", "8">>,
   ctb |-> <<"0", ".", "2", "0">>,
   semirigid_subbase |-> <<"0", ".", "2", "0">>]

\* what the user types into a thickness field: zero, a negative number, text
\* that is no number, a thick layer
EditTexts ==
  { <<"0">>, <<"-", "0", ".", "2">>, <<"a", "b", "c">>, <<"2", "0">> }

on_pavement_change_keep(vis, ptype) ==
  IF ptype = "Flexible" THEN vis \cup Range(flexible_widgets)
  ELSE IF ptype = "Rigid" THEN vis \cup Range(rigid_widgets)
  ELSE IF ptype = "Semi-Rigid" THEN vis \cup Range(semirigid_widgets)
  ELSE vis

\* on_pavement_change: grid_remove every widget of the three groups, then grid
\* the group of the selected type
on_pavement_change(vis, ptype) ==
  LET hidden == vis \ AllWidgets
  IN IF ptype = "Flexible" THEN hidden \cup Range(flexible_widgets)
     ELSE IF ptype = "Rigid" THEN hidden \cup Range(rigid_widgets)
     ELSE IF ptype = "Semi-Rigid" THEN hidden \cup Range(semirigid_widgets)
     ELSE hidden

-----------------------------------------------------------------------------
(* on_generate *)

SelectionValidAlways(ptype) == TRUE

\* ptype in ("Flexible", "Rigid", "Semi-Rigid")
SelectionValid(ptype) == ptype \in {"Flexible", "Rigid", "Semi-Rigid"}

\* the StringVars on_generate reads for the selected type
GatherKeys(ptype) ==
  IF ptype = "Flexible" THEN {"surface", "binder", "base", "subbase"}
  ELSE IF ptype = "Rigid" THEN {"rigid_slab", "rigid_subbase"}
  ELSE {"asphalt", "ctb", "semirigid_subbase"}

\* layers = {key: float(var.get()), ...}; ValueError when a text is no number
GatherLayers(ptype, flds) ==
  [ok |-> \A k \in GatherKeys(ptype) : ParseFloat(flds[k]).ok,
   layers |-> [k \in GatherKeys(ptype) |-> ParseFloat(flds[k]).val]]

SortKeyAscending(p) == <<p[2], p[1]>>

\* key=lambda p: (-p[1], p[0])
SortKey(p) == <<-p[2], p[1]>>

\* tuple comparison of two keys
KeyLess(a, b) == a[1] < b[1] \/ (a[1] = b[1] /\ a[2] < b[2])

\* where sorted puts p among the already sorted s: before the first element
\* whose key is greater
RECURSIVE Insert(_, _)
Insert(s, p) ==
  IF s = <<>> THEN <<p>>
  ELSE IF KeyLess(SortKey(p), SortKey(Head(s))) THEN <<p>> \o s
  ELSE <<Head(s)>> \o Insert(Tail(s), p)

\* sorted(nodes, key=...).  The keys of two different nodes differ, so the
\* result does not depend on the order in which the set is iterated.
RECURSIVE Sorted(_)
Sorted(S) ==
  IF S = {} THEN <<>>
  ELSE LET p == CHOOSE q \in S : TRUE
       IN Insert(Sorted(S \ {p}), p)

NumberNodesFromZero(sorted_nodes) ==
  [i \in 1..Len(sorted_nodes) |->
     <<i - 1, sorted_nodes[i][1], sorted_nodes[i][2], sorted_nodes[i][3]>>]

\* node_list = [(i+1, x, y, z) for i, (x, y, z) in enumerate(sorted_nodes)]
NumberNodes(sorted_nodes) ==
  [i \in 1..Len(sorted_nodes) |->
     <<i, sorted_nodes[i][1], sorted_nodes[i][2], sorted_nodes[i][3]>>]

-----------------------------------------------------------------------------
(* write_to_text *)

Header == <<"/", "P", "R", "E", "P", "7", "\n">>

\* f"N,{nid},{x},{y},{z}\n"
NodeLine(n) ==
  <<"N", ",">> \o FormatInt(n[1]) \o <<",">> \o FormatFloat(n[2]) \o <<",">>
    \o FormatFloat(n[3]) \o <<",">> \o FormatFloat(n[4]) \o <<"\n">>

RECURSIVE NodeLines(_, _)
NodeLines(nodes_list, count) ==
  IF count = 0 THEN <<>>
  ELSE NodeLines(nodes_list, count - 1) \o NodeLine(nodes_list[count])

\* what the file holds once the first count node lines are written
FileText(nodes_list, count) == Header \o NodeLines(nodes_list, count)

NoFile == [exists |-> FALSE, data |-> <<>>]

\* a file that is already at the chosen path
OldFile == [exists |-> TRUE, data |-> <<"o", "l", "d", "\n">>]

write_to_text_swallow(dsk, nodes_list, fault, k) ==
  IF fault = "open" THEN [raised |-> FALSE, disk |-> dsk]
  ELSE IF fault = "write"
  THEN [raised |-> FALSE,
        disk |-> [exists |-> TRUE, data |-> FileText(nodes_list, k)]]
  ELSE [raised |-> FALSE,
        disk |-> [exists |-> TRUE,
                  data |-> FileText(nodes_list, Len(nodes_list))]]

\* write_to_text on a path whose file is dsk.  open() may raise (the path is
\* not writable: the file stays as it was) and so may a write (the file is
\* left with the header and the first k node lines); otherwise the header and
\* every node line are written.
write_to_text(dsk, nodes_list, fault, k) ==
  IF fault = "open" THEN [raised |-> TRUE, disk |-> dsk]
  ELSE IF fault = "write"
  THEN [raised |-> TRUE,
        disk |-> [exists |-> TRUE, data |-> FileText(nodes_list, k)]]
  ELSE [raised |-> FALSE,
        disk |-> [exists |-> TRUE,
                  data |-> FileText(nodes_list, Len(nodes_list))]]

-----------------------------------------------------------------------------
(* on_generate, whole *)

NoPlot == [nodes |-> {}, col_lines |-> <<>>, row_lines |-> <<>>]

\* an invocation that returned before generate_pavement_nodes was called
EarlyReturn(evs, dsk) ==
  [events |-> evs, y_coords |-> <<>>, nodes |-> {}, node_list |-> <<>>,
   disk |-> dsk, plotted |-> NoPlot]

CanceledNever(file_path) == FALSE

\* not file_path
Canceled(file_path) == file_path = <<>>

\* an invocation that got as far as the save dialog, with what followed
Outcome(b, nl, evs, dsk, plot) ==
  [events |-> <<"validate", "build", "sort", "prompt">> \o evs,
   y_coords |-> b.y_coords, nodes |-> b.nodes, node_list |-> nl,
   disk |-> dsk, plotted |-> plot]

\* 6) and 7): after write_to_text, the success notice and the plot
AfterWrite(b, nl, w) ==
  IF w.raised THEN Outcome(b, nl, <<"write_fault">>, w.disk, NoPlot)
  ELSE Outcome(b, nl, <<"write", "showinfo_success", "plot">>, w.disk,
               [nodes |-> b.nodes, col_lines |-> b.col_lines,
                row_lines |-> b.row_lines])

\* 5) the save dialog
AfterSort(b, nl, file_path, fault, k, dsk) ==
  IF Canceled(file_path)
  THEN Outcome(b, nl, <<"showinfo_canceled">>, dsk, NoPlot)
  ELSE AfterWrite(b, nl, write_to_text(dsk, nl, fault, k))

\* 4) sort and number
AfterBuild(b, file_path, fault, k, dsk) ==
  AfterSort(b, NumberNodes(Sorted(b.nodes)), file_path, fault, k, dsk)

\* 3) generate nodes, unless a thickness was no number
AfterGather(ptype, g, file_path, fault, k, dsk) ==
  IF ~g.ok THEN EarlyReturn(<<"validate", "showerror_thickness">>, dsk)
  ELSE AfterBuild(generate_pavement_nodes(ptype, g.layers), file_path, fault,
                  k, dsk)

on_generate(ptype, flds, file_path, fault, k, dsk) ==
  IF ~SelectionValid(ptype)
  THEN EarlyReturn(<<"validate", "showerror_selection">>, dsk)
  ELSE AfterGather(ptype, GatherLayers(ptype, flds), file_path, fault, k, dsk)

-----------------------------------------------------------------------------
(* The program: the form after start-up, and what the user can do *)

NotCalled ==
  [raised |-> "not called", y_coords |-> <<>>, nodes |-> {},
   col_lines |-> <<>>, row_lines |-> <<>>]

\* what the save dialog answers: nothing (canceled) or a path
DialogAnswers == { <<>>, <<"n", ".", "t", "x", "t">> }

NoEnv == [path |-> <<>>, fault |-> "none", k |-> 0]

InitForm(ptype) ==
  /\ pavement_type_var = ptype
  /\ field = DefaultField
  /\ visible = on_pavement_change(AllWidgets \ AllWidgets, ptype)
  /\ edits = 0
  /\ events = <<>>
  /\ y_coords = <<>>
  /\ nodes = {}
  /\ node_list = <<>>
  /\ env = NoEnv
  /\ file_before = NoFile
  /\ disk = NoFile
  /\ plotted = NoPlot
  /\ pc = "idle"

Init ==
  /\ InitForm("Flexible")
  /\ b_type = "Flexible"
  /\ b_layers = <<>>
  /\ b_result = NotCalled

\* the user picks a type in the OptionMenu: the variable is written and its
\* write trace calls on_pavement_change
SelectType(t) ==
  /\ pc = "idle"
  /\ pavement_type_var' = t
  /\ visible' = on_pavement_change(visible, t)
  /\ UNCHANGED <<field, edits, events, y_coords, nodes, node_list, env,
                 file_before, disk, plotted, pc>>
  /\ UNCHANGED buildvars

\* the user retypes a thickness field; only a shown entry can be typed into
EditField(f, text) ==
  /\ pc = "idle"
  /\ edits < MaxEdits
  /\ Entry(f) \in visible
  /\ field' = [field EXCEPT ![f] = text]
  /\ edits' = edits + 1
  /\ UNCHANGED <<pavement_type_var, visible, events, y_coords, nodes, node_list,
                 env, file_before, disk, plotted, pc>>
  /\ UNCHANGED buildvars

\* the Generate button.  The save dialog answers file_path; the file at that
\* path is before; fault and k say how the write turns out.
Generated(r, before, e) ==
  /\ pc = "idle"
  /\ pc' = "generated"
  /\ env' = e
  /\ events' = r.events
  /\ y_coords' = r.y_coords
  /\ nodes' = r.nodes
  /\ node_list' = r.node_list
  /\ file_before' = before
  /\ disk' = r.disk
  /\ plotted' = r.plotted
  /\ UNCHANGED <<pavement_type_var, field, visible, edits>>
  /\ UNCHANGED buildvars

OnGenerate(file_path, before, fault, k) ==
  Generated(on_generate(pavement_type_var, field, file_path, fault, k, before),
            before, [path |-> file_path, fault |-> fault, k |-> k])

\* on_generate has returned (or its fault has been reported): its locals are
\* gone, the notices and the plot window are closed, the form takes input again
Return ==
  /\ pc = "generated"
  /\ pc' = "idle"
  /\ events' = <<>>
  /\ y_coords' = <<>>
  /\ nodes' = {}
  /\ node_list' = <<>>
  /\ env' = NoEnv
  /\ file_before' = NoFile
  /\ disk' = NoFile
  /\ plotted' = NoPlot
  /\ UNCHANGED <<pavement_type_var, field, visible, edits>>
  /\ UNCHANGED buildvars

\* how the save dialog and the write can turn out: canceled, written, open()
\* raising, a write raising after j node lines
Outcomes ==
  { [path |-> <<>>, fault |-> "none", k |-> 0] }
    \cup { [path |-> p, fault |-> f, k |-> 0] :
             p \in DialogAnswers \ {<<>>}, f \in {"none", "open"} }
    \cup { [path |-> p, fault |-> "write", k |-> j] :
             p \in DialogAnswers \ {<<>>}, j \in 0..MaxPartial }

Next ==
  \/ \E t \in PavementTypes : SelectType(t)
  \/ \E f \in FieldNames, text \in EditTexts : EditField(f, text)
  \/ \E o \in Outcomes, before \in {NoFile, OldFile} :
       OnGenerate(o.path, before, o.fault, o.k)
  \/ Return

Spec == Init /\ [][Next]_vars

\* on_generate for every value the selector variable can be given, the empty
\* string (nothing selected) included
SelectorValues == PavementTypes \cup {""}

InitGen ==
  /\ \E ptype \in SelectorValues : InitForm(ptype)
  /\ b_type = "Flexible"
  /\ b_layers = <<>>
  /\ b_result = NotCalled

SpecGen == InitGen /\ [][Next]_vars

-----------------------------------------------------------------------------
(* generate_pavement_nodes called directly, on every input of a bounded set *)

BuildTypes == PavementTypes \cup {"Composite"}

\* thicknesses in millimetres: zero, a very thin layer, the defaults, a
\* negative one, a thick one
ThickVals == {0, 1, 60, 200, -200, 20000}

BuildKeySets ==
  { Range(FlexibleKeys), Range(RigidKeys), Range(SemiRigidKeys), {} }

BuildLayers == UNION { [K -> ThickVals] : K \in BuildKeySets }

InitBuild ==
  /\ InitForm("Flexible")
  /\ b_type \in BuildTypes
  /\ b_layers \in BuildLayers
  /\ b_result = NotCalled

CallBuild ==
  /\ b_result = NotCalled
  /\ b_result' = generate_pavement_nodes(b_type, b_layers)
  /\ UNCHANGED <<b_type, b_layers>>
  /\ UNCHANGED guivars

NextBuild == CallBuild

SpecBuild == InitBuild /\ [][NextBuild]_vars

-----------------------------------------------------------------------------
(* Properties of generate_pavement_nodes (specification SpecBuild) *)

\* the call was made with one of the three types and every key of that type
BuiltValid == b_type \in PavementTypes /\ b_result.raised = "none"

LayerCount(pavement_type) ==
  IF pavement_type = "Flexible" THEN 4
  ELSE IF pavement_type = "Rigid" THEN 2 ELSE 3

\* the thicknesses of the call, in the type's layer order, then the subgrade
BuiltSteps == Append(Thicknesses(b_type, b_layers), SUBGRADE)

AllPositive == \A k \in DOMAIN b_layers : b_layers[k] > 0

\* the float sum of a sequence, left to right
RECURSIVE FloatSum(_)
FloatSum(s) ==
  IF s = <<>> THEN 0
  ELSE RoundFloat(FloatSum(SubSeq(s, 1, Len(s) - 1)) + s[Len(s)])

Distinct(s) == Cardinality(Range(s))

\* C1 as stated: for every valid input, zero and negative thicknesses
\* included, the node set has exactly 6 x len(depth sequence) elements.
C1_Original ==
  BuiltValid =>
    Cardinality(b_result.nodes) = 6 * Len(b_result.y_coords)

\* C1, amended: for every valid input the node set has exactly
\* 6 x (number of distinct values in the depth sequence) elements, one for
\* every station at every distinct depth, each with z = 0; that is
\* 6 x len(depth sequence) exactly when no depth value repeats.
C1_NodeCount ==
  BuiltValid =>
    /\ Cardinality(b_result.nodes) = 6 * Distinct(b_result.y_coords)
    /\ \A i \in 1..Len(X_COORDS), j \in 1..Len(b_result.y_coords) :
         <<X_COORDS[i], b_result.y_coords[j], 0>> \in b_result.nodes
    /\ \A n \in b_result.nodes :
         n[1] \in Range(X_COORDS) /\ n[2] \in Range(b_result.y_coords) /\ n[3] = 0
    /\ (Cardinality(b_result.nodes) = 6 * Len(b_result.y_coords)
          <=> Distinct(b_result.y_coords) = Len(b_result.y_coords))

\* a valid call whose depth sequence repeats a value
C1_Witness ==
  /\ BuiltValid
  /\ Distinct(b_result.y_coords) < Len(b_result.y_coords)
  /\ b_result.nodes # {}

\* C2 as stated: for the three types and positive thicknesses the depth
\* sequence has layer count + 2 elements, starts at 0, is strictly decreasing,
\* each element is the previous one minus the next thickness, and the last
\* one is -(sum of the thicknesses) - 1.5.
C2_Original ==
  (BuiltValid /\ AllPositive) =>
    /\ Len(b_result.y_coords) = LayerCount(b_type) + 2
    /\ b_result.y_coords[1] = 0
    /\ \A i \in 1..(Len(b_result.y_coords) - 1) :
         /\ b_result.y_coords[i + 1] < b_result.y_coords[i]
         /\ b_result.y_coords[i + 1] = FSub(b_result.y_coords[i], BuiltSteps[i])
    /\ b_result.y_coords[Len(b_result.y_coords)]
         = FSub(-FloatSum(Thicknesses(b_type, b_layers)), SUBGRADE)

\* C2, amended: for the three types and positive thicknesses the depth
\* sequence has layer count + 2 elements, starts at 0, never increases, and
\* decreases strictly at every step whose float subtraction is exact; each
\* element is the previous one minus the next thickness (as floats), and the
\* last one is -(float sum of the thicknesses) - 1.5.
C2_DepthSequence ==
  (BuiltValid /\ AllPositive) =>
    /\ Len(b_result.y_coords) = LayerCount(b_type) + 2
    /\ b_result.y_coords[1] = 0
    /\ \A i \in 1..(Len(b_result.y_coords) - 1) :
         /\ b_result.y_coords[i + 1] <= b_result.y_coords[i]
         /\ IsFloat(b_result.y_coords[i] - BuiltSteps[i])
              => b_result.y_coords[i + 1] < b_result.y_coords[i]
         /\ b_result.y_coords[i + 1] = FSub(b_result.y_coords[i], BuiltSteps[i])
    /\ b_result.y_coords[Len(b_result.y_coords)]
         = FSub(-FloatSum(Thicknesses(b_type, b_layers)), SUBGRADE)

\* a valid call with positive thicknesses in which a thin layer under a thick
\* one is absorbed by the rounding: two successive depths are equal
C2_Witness ==
  /\ BuiltValid
  /\ AllPositive
  /\ \E i \in 1..(Len(b_result.y_coords) - 1) :
       b_result.y_coords[i + 1] = b_result.y_coords[i]

\* C6 as stated: the call fails, giving no nodes, whenever pavement_type is
\* not one of the three tags, whatever keys layers holds.
C6_Original ==
  (b_result # NotCalled /\ b_type \notin PavementTypes) =>
    (b_result.raised # "none" /\ b_result.nodes = {})

\* C6, amended: a pavement_type that is not one of the three tags is taken
\* as Semi-Rigid: the call fails (KeyError, no nodes) exactly when layers
\* lacks one of asphalt, ctb, semirigid_subbase, and otherwise returns what
\* it returns for Semi-Rigid with the same layers.
C6_UnknownType ==
  (b_result # NotCalled /\ b_type \notin PavementTypes) =>
    IF Range(SemiRigidKeys) \subseteq DOMAIN b_layers
    THEN /\ b_result.raised = "none"
         /\ b_result.nodes # {}
         /\ b_result = generate_pavement_nodes("Semi-Rigid", b_layers)
    ELSE b_result.raised = "KeyError" /\ b_result.nodes = {}

\* a call with an unknown type that returned nodes
C6_Witness ==
  /\ b_type \notin PavementTypes
  /\ b_result.raised = "none"
  /\ Cardinality(b_result.nodes) >= 6

-----------------------------------------------------------------------------
(* Properties of the form and of on_generate (specifications Spec, SpecGen) *)

Generating == pc = "generated"

Did(e) == e \in Range(events)

\* every thickness field on_generate reads for the selected type is a number
FieldsParse ==
  \A f \in GatherKeys(pavement_type_var) : ParseFloat(field[f]).ok

ValidInputs == pavement_type_var \in PavementTypes /\ FieldsParse

\* on_generate got as far as the numbered list
Numbered == Generating /\ Did("sort")

Ids == { node_list[i][1] : i \in 1..Len(node_list) }

Coordinates(i) == <<node_list[i][2], node_list[i][3], node_list[i][4]>>

\* C3 as stated: the ids of the numbered list are each of 1..N exactly once,
\* no node numbered twice and none left out, with N = 6 x (number of entries
\* of the depth sequence).
C3_Original ==
  Numbered =>
    /\ Len(node_list) = 6 * Len(y_coords)
    /\ Ids = 1..(6 * Len(y_coords))

\* C3, amended: the ids of the numbered list are each of 1..N exactly once,
\* no node numbered twice and none left out, with N = the size of the node
\* set = 6 x (number of distinct values of the depth sequence).
C3_Numbering ==
  Numbered =>
    /\ Len(node_list) = Cardinality(nodes)
    /\ Len(node_list) = 6 * Distinct(y_coords)
    /\ Ids = 1..Len(node_list)
    /\ \A i \in 1..Len(node_list) : node_list[i][1] = i
    /\ { Coordinates(i) : i \in 1..Len(node_list) } = nodes
    /\ \A i, j \in 1..Len(node_list) :
         Coordinates(i) = Coordinates(j) => i = j

\* a numbered list for a depth sequence that repeats a value
C3_Witness ==
  /\ Numbered
  /\ Len(node_list) > 0
  /\ Distinct(y_coords) < Len(y_coords)

NothingDone ==
  /\ ~Did("prompt")
  /\ ~Did("build")
  /\ ~Did("write")
  /\ ~Did("write_fault")
  /\ ~Did("showinfo_success")
  /\ ~Did("plot")
  /\ disk = file_before
  /\ plotted = NoPlot
  /\ node_list = <<>>

\* C5: with no valid type selected, or with a thickness field of the selected
\* type that is no number, generate ends with the selection error notice,
\* respectively the thickness error notice, shows no save prompt, writes no
\* file and renders no plot.
C5_Errors ==
  Generating =>
    /\ pavement_type_var \notin PavementTypes =>
         events = <<"validate", "showerror_selection">> /\ NothingDone
    /\ (pavement_type_var \in PavementTypes /\ ~FieldsParse) =>
         events = <<"validate", "showerror_thickness">> /\ NothingDone

\* generate was invoked with nothing selected, over a file already on disk
C5_Witness ==
  /\ Generating
  /\ pavement_type_var = ""
  /\ file_before = OldFile
  /\ Did("showerror_selection")

\* the places of the character c in the text s
Places(s, c) == { i \in 1..Len(s) : s[i] = c }

\* the j-th place of a set of places, counted from 1; 0 for j = 0 and one
\* past the end of a text of length n for j past the last place
Place(P, j, n) ==
  IF j = 0 THEN 0
  ELSE IF j > Cardinality(P) THEN n + 1
  ELSE CHOOSE q \in P : Cardinality({ r \in P : r < q }) = j - 1

\* the pieces of s between the places P: s.split(c)
PiecesAt(s, P) ==
  [j \in 1..(Cardinality(P) + 1) |->
     SubSeq(s, Place(P, j - 1, Len(s)) + 1, Place(P, j, Len(s)) - 1)]

SplitText(s, c) == PiecesAt(s, Places(s, c))

\* a reader of one node line: N, then int(id), float(x), float(y), float(z)
ReadFields(f) ==
  IF Len(f) = 5 /\ f[1] = <<"N">> /\ ParseInt(f[2]).ok /\ ParseFloat(f[3]).ok
       /\ ParseFloat(f[4]).ok /\ ParseFloat(f[5]).ok
  THEN [ok |-> TRUE,
        node |-> <<ParseInt(f[2]).val, ParseFloat(f[3]).val,
                   ParseFloat(f[4]).val, ParseFloat(f[5]).val>>]
  ELSE [ok |-> FALSE, node |-> <<>>]

ReadLine(line) == ReadFields(SplitText(line, ","))

\* a reader of the whole file, given its lines (the text split at the line
\* ends: the piece after the last line end must be empty)
ReadLines(lines) ==
  [ok |-> /\ Len(lines) >= 2
          /\ lines[Len(lines)] = <<>>
          /\ lines[1] = <<"/", "P", "R", "E", "P", "7">>
          /\ \A i \in 2..(Len(lines) - 1) : ReadLine(lines[i]).ok,
   nodes_list |-> [i \in 1..(Len(lines) - 2) |-> ReadLine(lines[i + 1]).node]]

ReadBack(text) == ReadLines(SplitText(text, "\n"))

\* write_to_text ran to its end
Written == Generating /\ Did("write")

\* C7: the written file is the line /PREP7 followed by exactly one line
\* N,<id>,<x>,<y>,<z> per numbered node, in list order and with nothing after
\* them (whatever the file held before): reading the file back gives exactly
\* the numbered node list, with z = 0 on every line.
C7_RoundTrip ==
  Written =>
    /\ disk.exists
    /\ ReadBack(disk.data).ok
    /\ ReadBack(disk.data).nodes_list = node_list
    /\ Cardinality(Places(disk.data, "\n")) = Len(node_list) + 1
    /\ \A i \in 1..Len(node_list) : node_list[i][4] = 0

\* a file written over an older one, with a node below the surface and one
\* above it in it
C7_Witness ==
  /\ Written
  /\ file_before = OldFile
  /\ \E i \in 1..Len(node_list) : node_list[i][3] < 0
  /\ \E i \in 1..Len(node_list) : node_list[i][3] > 0

\* C8: with valid inputs and the save prompt canceled, generate ends with the
\* cancellation notice, which is an information notice and not an error
\* notice; write_to_text is not called, no plot is rendered and no success
\* notice is shown.
C8_Cancel ==
  (Generating /\ ValidInputs /\ env.path = <<>>) =>
    /\ events = <<"validate", "build", "sort", "prompt", "showinfo_canceled">>
    /\ ~Did("showerror_selection") /\ ~Did("showerror_thickness")
    /\ ~Did("write") /\ ~Did("write_fault")
    /\ ~Did("showinfo_success")
    /\ ~Did("plot")
    /\ disk = file_before
    /\ plotted = NoPlot

\* generate with valid inputs, canceled at the save prompt, a file being there
C8_Witness ==
  /\ Generating
  /\ ValidInputs
  /\ env.path = <<>>
  /\ file_before = OldFile
  /\ Did("showinfo_canceled")

\* the place of a step in the order of on_generate
Rank(e) ==
  CASE e = "validate" -> 1
    [] e = "build" -> 2
    [] e = "sort" -> 3
    [] e = "prompt" -> 4
    [] e \in {"write", "write_fault"} -> 5
    [] e = "showinfo_success" -> 6
    [] e = "plot" -> 7
    [] OTHER -> 8

\* the write was asked for and met a fault
WriteFaulted == Generating /\ ValidInputs /\ env.path # <<>> /\ env.fault # "none"

\* C9: within one generate the steps come in the order validate, build,
\* sort/number, path prompt, file write, success notice, plot, each at most
\* once; the success notice and the plot come only after write_to_text has
\* completed (the file holds every line), and when the write faults neither
\* comes.
C9_StepOrder ==
  Generating =>
    /\ \A i, j \in 1..Len(events) : i < j => Rank(events[i]) < Rank(events[j])
    /\ \A i \in 2..Len(events) :
         Rank(events[i]) <= 7 => Rank(events[i - 1]) = Rank(events[i]) - 1
    /\ events[1] = "validate"
    /\ (Did("showinfo_success") \/ Did("plot")) =>
         /\ Did("write") /\ Did("showinfo_success") /\ Did("plot")
         /\ env.fault = "none"
         /\ disk = [exists |-> TRUE, data |-> FileText(node_list, Len(node_list))]
         /\ plotted.nodes = nodes
    /\ WriteFaulted =>
         /\ ~Did("showinfo_success") /\ ~Did("plot") /\ ~Did("write")
         /\ plotted = NoPlot
         /\ events[Len(events)] = "write_fault"

\* generate whose write faulted after the header and a node line
C9_Witness ==
  /\ WriteFaulted
  /\ env.fault = "write"
  /\ Len(disk.data) > Len(Header)

GroupOf(ptype) ==
  IF ptype = "Flexible" THEN Range(flexible_widgets)
  ELSE IF ptype = "Rigid" THEN Range(rigid_widgets)
  ELSE Range(semirigid_widgets)

ShownEntries == { f \in FieldNames : Entry(f) \in visible }

\* C10: after start-up and after any selections, the shown thickness widgets
\* are exactly the group of the selected type (Flexible: 4 fields, Rigid: 2,
\* Semi-Rigid: 3), every widget of the other groups is hidden, and the fields
\* on_generate reads are those of the shown group.
C10_Visible ==
  /\ pavement_type_var \in PavementTypes
  /\ visible = GroupOf(pavement_type_var)
  /\ \A w \in AllWidgets \ GroupOf(pavement_type_var) : w \notin visible
  /\ Cardinality(ShownEntries) = LayerCount(pavement_type_var)
  /\ ShownEntries = GatherKeys(pavement_type_var)

\* Rigid selected after another type, and one of its fields retyped
C10_Witness ==
  /\ pavement_type_var = "Rigid"
  /\ visible = Range(rigid_widgets)
  /\ field # DefaultField
  /\ Generating

====
